---- MODULE Spec2Model ----
(***************************************************************************)
(* The MQTT publisher (src/publisher.py), the subscriber                   *)
(* (src/subscriber.py) and the broker between them, as a state machine.    *)
(*                                                                         *)
(* A text (a payload, a client identifier, the text log) is a sequence of  *)
(* tokens; a token is a string.  The broker is the environment of both     *)
(* programs: it keeps each client's subscriptions and a queue of messages  *)
(* not yet handed to the client's on_message callback.                     *)
(***************************************************************************)
EXTENDS Integers, Sequences, FiniteSets, TLC

(* ------------------------------ bounds -------------------------------- *)
\* number of records the publisher has loaded (len(processed) >= 1)
NumRecords == 2
\* messages of other clients that wait in one client's queue at a time
MaxQueued == 1
\* heartbeats the publisher sends while subscribers run beside it
MaxHeartbeats == 1
\* messages the broker hands to the stand-alone subscriber
MaxForeign == 3
\* connections lost (and re-established by loop_forever), over all subscribers
MaxReconnects == 1
\* file operations of the subscriber that fail, over all subscribers
MaxIoFaults == 1
\* calls of append_json_record in a run of the subscriber
MaxAppends == 2

\* the subscriber processes, each named by its CLIENT_ID
Subs == {"s1", "s2"}
\* invocations of the publisher's on_message_handler that may be in progress at once
Handlers == {"h1", "h2"}

(* ------------------------- program constants -------------------------- *)
MAX_CONNECT_RETRIES == 12
\* the publisher logs every HeartbeatLogEvery-th heartbeat (heartbeat_count % 6)
HeartbeatLogEvery == 6

TOPIC == "test/topic"
STATUS_TOPIC == "test/topic/status"
HEARTBEAT_TOPIC == "test/topic/heartbeat"
\* a topic that is none of the three
OTHER_TOPIC == "other"
QOS == 1

\* CLIENT_ID of subscriber process s (one token of text)
CLIENT_ID(s) == s

\* tokens of a JSON text
QUOTE == "\""
\* a quote escaped with a backslash, as in a JSON text that was escaped once
ESC_QUOTE == "\\\""
NEWLINE == "\n"

\* the loaded records, in load order: dicts with one field
records == [i \in 1..NumRecords |-> [id |-> ToString(i)]]

\* json.dumps(rec): the JSON text of a record (an object, on one line)
json_dumps(rec) == <<"{", QUOTE, "id", QUOTE, ":", rec.id, "}">>

(* ------------------------------ state --------------------------------- *)
VARIABLES
    pubPc,              \* publisher main thread: its position in main()
    attempt,            \* connect attempt number (the for loop of main)
    handlerSet,         \* client.on_message is on_message_handler
    heartbeat_count,    \* modulo HeartbeatLogEvery, all the code reads of it
    beats,              \* history: heartbeats published, up to MaxHeartbeats
    lastBeat,           \* history: the latest heartbeat message published
    KNOWN_SUBSCRIBERS,  \* set of identifiers
    SUBSCRIBER_LOCK,    \* "free" or the handler invocation holding it
    hPc, hId,           \* per handler invocation: position, subscriber_id
    infos,              \* per handler invocation: records published by publish_records
    started,            \* history: identifiers a redelivery was started for, in order
    batches,            \* history: every batch that ended, [id, recs, raised, sent]
    unlockedWrite,      \* history: KNOWN_SUBSCRIBERS was mutated without the lock
    topics,             \* broker: client -> set of [topic, qos] subscribed
    queue,              \* broker: client -> messages not yet handed to on_message
    subPc,              \* subscriber: "init", "connecting", "up", "down", "exited"
    lastRc,             \* subscriber: reason code of the latest on_connect
    lastOps,            \* subscriber: client calls made by its latest callback
    TEXT_LOG,           \* subscriber: bytes of messages.txt
    JSON_LOG,           \* subscriber: messages.json, [exists, bytes]
    JSON_BAK,           \* subscriber: messages.json.bak, [exists, bytes]
    received,           \* history: payloads of the data messages handled, in order
    foreign,            \* messages handed to the stand-alone subscriber so far
    reconnects,         \* connections lost so far
    ioFaults,           \* failed file operations so far
    file0, bak0,        \* history: the JSON log and its backup at the start
    calls,              \* history: records passed to append_json_record, in order
    appendRaised        \* history: the latest append_json_record call raised

pubVars == <<pubPc, attempt, handlerSet, heartbeat_count, beats, lastBeat>>
hVars == <<KNOWN_SUBSCRIBERS, SUBSCRIBER_LOCK, hPc, hId, infos, started,
           batches, unlockedWrite>>
brokerVars == <<topics, queue>>
fileVars == <<TEXT_LOG, JSON_LOG, JSON_BAK, received, ioFaults>>
subVars == <<subPc, lastRc, lastOps, reconnects>>
appendVars == <<file0, bak0, calls, appendRaised>>

\* the functions of the two programs that are run on their own
VARIABLES
    parse_input,        \* the decoded payload of a data message
    parse_output,       \* <<>>, or <<r>> for the record r that on_message built from it
    cfg,                \* publisher: what load_config and the source file give main
    acks,               \* environment: how the broker's acknowledgements reach the publisher
    wait_pc,            \* wait_for_broker: position in the module body
    now,                \* wait_for_broker: time.time(), in ticks since the start
    deadline,           \* wait_for_broker: the start time plus TIMEOUT
    argv,               \* wait_for_broker: sys.argv[1:], the command to hand over to
    connects,           \* history: successful connects of wait_for_broker
    coerce_in,          \* a row as load_csv or load_json gives it
    coerce_out,         \* <<>>, or <<r>> for r = auto_convert_record(coerce_in)
    coerce_again,       \* <<>>, or <<r>> for r = auto_convert_record(coerce_out[1])
    JSON_LOCK,          \* subscriber: "free", or the thread that holds the lock
    omPc,               \* subscriber: position of each thread inside on_message
    omMessage,          \* subscriber: the decoded payload each thread is handling
    handled             \* history: the number of on_message calls so far

parseVars == <<parse_input, parse_output>>
envVars == <<cfg, acks>>
waitVars == <<wait_pc, now, deadline, argv, connects>>
coerceVars == <<coerce_in, coerce_out, coerce_again>>
lockVars == <<JSON_LOCK, omPc, omMessage, handled>>
extraVars == <<parseVars, envVars, waitVars, coerceVars, lockVars>>
vars == <<pubVars, hVars, brokerVars, fileVars, subVars, foreign, appendVars, extraVars>>

PUB == "pub"
Clients == Subs \cup {PUB}

(* ------------------------------ broker -------------------------------- *)
Msg(t, p, q) == [topic |-> t, payload |-> p, qos |-> q]

Subscribed(tp, c, t) == \E e \in tp[c] : e.topic = t

\* The broker routes a published message to every client subscribed to its
\* topic, in the order the messages were published.
Route(tp, qu, m) ==
    [c \in Clients |->
        IF Subscribed(tp, c, m.topic) THEN Append(qu[c], m) ELSE qu[c]]

(* ----------------------- text helpers (publisher) --------------------- *)
\* a byte sequence that is not UTF-8: payload.decode('utf-8') raises on it
BAD_UTF8 == "\\xff"
SPACE == " "

Decodable(p) == \A i \in 1..Len(p) : p[i] # BAD_UTF8

\* str.strip(): leading and trailing white space removed
RECURSIVE LStrip(_)
LStrip(p) == IF p # <<>> /\ Head(p) \in {SPACE, NEWLINE} THEN LStrip(Tail(p)) ELSE p

RECURSIVE RStrip(_)
RStrip(p) ==
    IF p # <<>> /\ p[Len(p)] \in {SPACE, NEWLINE}
    THEN RStrip(SubSeq(p, 1, Len(p) - 1)) ELSE p

Strip(p) == RStrip(LStrip(p))

(* ----------------------- publisher: main thread ----------------------- *)
\* the network thread runs from loop_start() until loop_stop() has joined it
LoopRunning == pubPc \in {"subscribe", "set_handler", "heartbeat", "loop_stop"}

\* what main reads of the configuration: source.path ("" when missing),
\* source.type, and whether the source file holds any record
Configs ==
    [path : {"", "a.csv"}, type : {"csv", "json", "CSV", "xml"}, empty : BOOLEAN]
DefaultConfig == [path |-> "a.csv", type |-> "csv", empty |-> FALSE]

\* str.lower() of a source type
Lower(t) == IF t = "CSV" THEN "csv" ELSE t

\* faulty variant: the source type is not checked
LoadConfigAnyType ==
    /\ pubPc = "start"
    /\ pubPc' = IF cfg.path = "" THEN "exit1"
                ELSE IF cfg.empty THEN "returned"
                ELSE "connect"
    /\ UNCHANGED <<attempt, handlerSet, heartbeat_count, beats, lastBeat, hVars,
                   brokerVars, fileVars, subVars, foreign, appendVars, extraVars>>

\* main, up to the creation of the client: sys.exit(1) when source.path is
\* missing or source.type is unsupported, return when no record was loaded
LoadConfig ==
    /\ pubPc = "start"
    /\ pubPc' = IF cfg.path = "" THEN "exit1"
                ELSE IF Lower(cfg.type) \notin {"csv", "json"} THEN "exit1"
                ELSE IF cfg.empty THEN "returned"
                ELSE "connect"
    /\ UNCHANGED <<attempt, handlerSet, heartbeat_count, beats, lastBeat, hVars,
                   brokerVars, fileVars, subVars, foreign, appendVars, extraVars>>

\* the exit status of the publisher process, -1 while it runs: an exception
\* that leaves main and sys.exit(1) both end it with status 1
ExitStatus ==
    IF pubPc \in {"exit1", "crashed"} THEN 1
    ELSE IF pubPc \in {"returned", "done"} THEN 0
    ELSE -1

\* faulty variant: the attempt before the last is taken for the last
ConnectOneShort ==
    /\ pubPc = "connect"
    /\ \E ok \in BOOLEAN :
          IF ok THEN pubPc' = "loop_start" /\ attempt' = 0
          ELSE IF attempt = MAX_CONNECT_RETRIES - 1
               THEN pubPc' = "crashed" /\ attempt' = attempt
               ELSE pubPc' = "retry_sleep" /\ attempt' = attempt
    /\ UNCHANGED <<handlerSet, heartbeat_count, beats, lastBeat, hVars, brokerVars, fileVars,
                   subVars, foreign, appendVars, extraVars>>

\* main, the connect loop: one attempt, which succeeds (break; attempt is
\* not read again), raises for the last time (the exception leaves main), or
\* raises and is followed by the retry delay
Connect ==
    /\ pubPc = "connect"
    /\ \E ok \in BOOLEAN :
          IF ok THEN pubPc' = "loop_start" /\ attempt' = 0
          ELSE IF attempt = MAX_CONNECT_RETRIES
               THEN pubPc' = "crashed" /\ attempt' = attempt
               ELSE pubPc' = "retry_sleep" /\ attempt' = attempt
    /\ UNCHANGED <<handlerSet, heartbeat_count, beats, lastBeat, hVars, brokerVars, fileVars,
                   subVars, foreign, appendVars, extraVars>>

\* time.sleep(CONNECT_RETRY_DELAY), then the next round of the for loop
ConnectRetryDelay ==
    /\ pubPc = "retry_sleep"
    /\ pubPc' = "connect"
    /\ attempt' = attempt + 1
    /\ UNCHANGED <<handlerSet, heartbeat_count, beats, lastBeat, hVars, brokerVars, fileVars,
                   subVars, foreign, appendVars, extraVars>>

\* faulty variant: the first record is published as soon as the loop runs,
\* whether or not a subscriber has announced itself
LoopStartThenPublish ==
    /\ pubPc = "loop_start"
    /\ pubPc' = "subscribe"
    /\ queue' = Route(topics, queue, Msg(TOPIC, json_dumps(records[1]), QOS))
    /\ UNCHANGED <<attempt, handlerSet, heartbeat_count, beats, lastBeat, hVars, topics,
                   fileVars, subVars, foreign, appendVars, extraVars>>

\* client.loop_start(); time.sleep(1.0)
LoopStart ==
    /\ pubPc = "loop_start"
    /\ pubPc' = "subscribe"
    /\ UNCHANGED <<attempt, handlerSet, heartbeat_count, beats, lastBeat, hVars, brokerVars,
                   fileVars, subVars, foreign, appendVars, extraVars>>

\* monitor_with_heartbeat: client.subscribe(status_topic, qos=1)
SubscribeStatus ==
    /\ pubPc = "subscribe"
    /\ topics' = [topics EXCEPT ![PUB] = {[topic |-> STATUS_TOPIC, qos |-> 1]}]
    /\ pubPc' = "set_handler"
    /\ UNCHANGED <<attempt, handlerSet, heartbeat_count, beats, lastBeat, hVars, queue, fileVars,
                   subVars, foreign, appendVars, extraVars>>

\* monitor_with_heartbeat: client.on_message = on_message_handler
SetHandler ==
    /\ pubPc = "set_handler"
    /\ handlerSet' = TRUE
    /\ pubPc' = "heartbeat"
    /\ UNCHANGED <<attempt, heartbeat_count, beats, lastBeat, hVars, brokerVars, fileVars,
                   subVars, foreign, appendVars, extraVars>>

\* faulty variant: the round first waits for the subscriber lock
HeartbeatLocked ==
    /\ pubPc = "heartbeat"
    /\ SUBSCRIBER_LOCK = "free"
    /\ queue' = Route(topics, queue, Msg(HEARTBEAT_TOPIC, <<"ready">>, 0))
    /\ lastBeat' = <<Msg(HEARTBEAT_TOPIC, <<"ready">>, 0)>>
    /\ heartbeat_count' = (heartbeat_count + 1) % HeartbeatLogEvery
    /\ beats' = IF beats < MaxHeartbeats THEN beats + 1 ELSE beats
    /\ UNCHANGED <<pubPc, attempt, handlerSet, hVars, topics, fileVars, subVars,
                   foreign, appendVars, extraVars>>

\* one round of the while loop: publish "ready", count, sleep
Heartbeat ==
    /\ pubPc = "heartbeat"
    /\ queue' = Route(topics, queue, Msg(HEARTBEAT_TOPIC, <<"ready">>, 0))
    /\ lastBeat' = <<Msg(HEARTBEAT_TOPIC, <<"ready">>, 0)>>
    /\ heartbeat_count' = (heartbeat_count + 1) % HeartbeatLogEvery
    /\ beats' = IF beats < MaxHeartbeats THEN beats + 1 ELSE beats
    /\ UNCHANGED <<pubPc, attempt, handlerSet, hVars, topics, fileVars, subVars,
                   foreign, appendVars, extraVars>>

\* KeyboardInterrupt in the loop: caught, monitor_with_heartbeat returns
Interrupt ==
    /\ pubPc = "heartbeat"
    /\ pubPc' = "loop_stop"
    /\ UNCHANGED <<attempt, handlerSet, heartbeat_count, beats, lastBeat, hVars, brokerVars,
                   fileVars, subVars, foreign, appendVars, extraVars>>

\* client.loop_stop(): joins the network thread, which ends its callback first
LoopStop ==
    /\ pubPc = "loop_stop"
    /\ \A h \in Handlers : hPc[h] = "idle"
    /\ pubPc' = "disconnect"
    /\ UNCHANGED <<attempt, handlerSet, heartbeat_count, beats, lastBeat, hVars, brokerVars,
                   fileVars, subVars, foreign, appendVars, extraVars>>

\* client.disconnect(): the broker drops the (clean) session
Disconnect ==
    /\ pubPc = "disconnect"
    /\ pubPc' = "done"
    /\ topics' = [topics EXCEPT ![PUB] = {}]
    /\ queue' = [queue EXCEPT ![PUB] = <<>>]
    /\ UNCHANGED <<attempt, handlerSet, heartbeat_count, beats, lastBeat, hVars,
                   fileVars, subVars, foreign, appendVars, extraVars>>

(* --------------- publisher: on_message_handler (network thread) ------- *)
\* The library hands the next queued message to client.on_message.  Before
\* on_message_handler is assigned there is no callback and the message is
\* discarded.  The handler decodes and strips the payload; a payload that does
\* not decode raises, which the handler's except clause logs.
Dispatch(h) ==
    /\ LoopRunning
    /\ hPc[h] = "idle"
    /\ queue[PUB] # <<>>
    /\ LET m == Head(queue[PUB]) IN
         /\ queue' = [queue EXCEPT ![PUB] = Tail(queue[PUB])]
         /\ IF handlerSet /\ m.topic = STATUS_TOPIC /\ Decodable(m.payload)
            THEN /\ hPc' = [hPc EXCEPT ![h] = "lock"]
                 /\ hId' = [hId EXCEPT ![h] = Strip(m.payload)]
            ELSE UNCHANGED <<hPc, hId>>
    /\ UNCHANGED <<pubVars, KNOWN_SUBSCRIBERS, SUBSCRIBER_LOCK, infos, started,
                   batches, unlockedWrite, topics, fileVars, subVars, foreign,
                   appendVars, extraVars>>

\* faulty variant: the with block is entered without waiting for the lock
AcquireWithoutWaiting(h) ==
    /\ hPc[h] = "lock"
    /\ SUBSCRIBER_LOCK' = h
    /\ hPc' = [hPc EXCEPT ![h] = "check"]
    /\ UNCHANGED <<pubVars, KNOWN_SUBSCRIBERS, hId, infos, started, batches,
                   unlockedWrite, brokerVars, fileVars, subVars, foreign, appendVars, extraVars>>

\* with SUBSCRIBER_LOCK: blocks until the lock is free, then holds it
Acquire(h) ==
    /\ hPc[h] = "lock"
    /\ SUBSCRIBER_LOCK = "free"
    /\ SUBSCRIBER_LOCK' = h
    /\ hPc' = [hPc EXCEPT ![h] = "check"]
    /\ UNCHANGED <<pubVars, KNOWN_SUBSCRIBERS, hId, infos, started, batches,
                   unlockedWrite, brokerVars, fileVars, subVars, foreign, appendVars, extraVars>>

\* if subscriber_id not in KNOWN_SUBSCRIBERS ... else (known: nothing to do)
Check(h) ==
    /\ hPc[h] = "check"
    /\ hPc' = [hPc EXCEPT ![h] =
                 IF hId[h] \notin KNOWN_SUBSCRIBERS THEN "add" ELSE "release"]
    /\ UNCHANGED <<pubVars, KNOWN_SUBSCRIBERS, SUBSCRIBER_LOCK, hId, infos,
                   started, batches, unlockedWrite, brokerVars, fileVars, subVars,
                   foreign, appendVars, extraVars>>

\* KNOWN_SUBSCRIBERS.add(subscriber_id); publish_records is entered (infos = [])
Add(h) ==
    /\ hPc[h] = "add"
    /\ KNOWN_SUBSCRIBERS' = KNOWN_SUBSCRIBERS \cup {hId[h]}
    /\ unlockedWrite' = (unlockedWrite \/ SUBSCRIBER_LOCK # h)
    /\ started' = Append(started, hId[h])
    /\ infos' = [infos EXCEPT ![h] = <<>>]
    /\ hPc' = [hPc EXCEPT ![h] = "publish"]
    /\ UNCHANGED <<pubVars, SUBSCRIBER_LOCK, hId, batches, brokerVars, fileVars,
                   subVars, foreign, appendVars, extraVars>>

\* the sent field of a batch whose count was never reported
NoCount == -1

\* faulty variant: the exception is logged while the lock stays held
RaisedKeepsLock(h) ==
    /\ batches' = Append(batches, [id |-> hId[h], recs |-> infos[h], raised |-> TRUE,
                                   sent |-> NoCount])
    /\ SUBSCRIBER_LOCK' = SUBSCRIBER_LOCK
    /\ hPc' = [hPc EXCEPT ![h] = "idle"]
    /\ hId' = [hId EXCEPT ![h] = <<>>]
    /\ infos' = [infos EXCEPT ![h] = <<>>]
    /\ UNCHANGED queue

\* the exception leaves the with block (the lock is released) and is logged;
\* the line that reports the count is not reached
Raised(h) ==
    /\ batches' = Append(batches, [id |-> hId[h], recs |-> infos[h], raised |-> TRUE,
                                   sent |-> NoCount])
    /\ SUBSCRIBER_LOCK' = IF SUBSCRIBER_LOCK = h THEN "free" ELSE SUBSCRIBER_LOCK
    /\ hPc' = [hPc EXCEPT ![h] = "idle"]
    /\ hId' = [hId EXCEPT ![h] = <<>>]
    /\ infos' = [infos EXCEPT ![h] = <<>>]
    /\ UNCHANGED queue

\* publish_records, one round of its for loop: the next record is published
\* to the data topic, or client.publish raises (an invalid qos from the
\* configuration, a payload over the protocol's size limit)
Publish(h) ==
    /\ hPc[h] = "publish"
    /\ \E raise \in BOOLEAN :
          IF raise THEN Raised(h)
          ELSE LET rec == records[Len(infos[h]) + 1] IN
               /\ queue' = Route(topics, queue, Msg(TOPIC, json_dumps(rec), QOS))
               /\ infos' = [infos EXCEPT ![h] = Append(infos[h], rec)]
               /\ hPc' = [hPc EXCEPT ![h] =
                            IF Len(infos[h]) + 1 = NumRecords THEN "grace"
                            ELSE "publish"]
               /\ UNCHANGED <<SUBSCRIBER_LOCK, batches, hId>>
    /\ UNCHANGED <<pubVars, KNOWN_SUBSCRIBERS, started, unlockedWrite, topics,
                   fileVars, subVars, foreign, appendVars, extraVars>>

\* the publishes of a batch that is_published can report as confirmed: all of
\* them over a link that stays up and acknowledges within the grace period,
\* any subset of them otherwise
Confirmable ==
    IF acks = "in_time" THEN {1..NumRecords} ELSE SUBSET (1..NumRecords)

\* publish_records, after the loop: the grace period, then info.is_published()
\* for each publish in turn.  True is counted and False is logged as not
\* confirmed; for a publish that the client did not accept (its rc is an
\* error: the connection was down when it was issued) is_published raises.
\* Without a raise the count is returned and logged, and the with block ends.
Grace(h) ==
    /\ hPc[h] = "grace"
    /\ \E confirmed \in Confirmable, raise \in (IF acks = "in_time" THEN {FALSE} ELSE BOOLEAN) :
          IF raise THEN Raised(h)
          ELSE /\ batches' = Append(batches, [id |-> hId[h], recs |-> infos[h],
                                              raised |-> FALSE,
                                              sent |-> Cardinality(confirmed)])
               /\ hPc' = [hPc EXCEPT ![h] = "release"]
               /\ UNCHANGED <<SUBSCRIBER_LOCK, hId, infos, queue>>
    /\ UNCHANGED <<pubVars, KNOWN_SUBSCRIBERS, started, unlockedWrite, topics,
                   fileVars, subVars, foreign, appendVars, extraVars>>

\* end of the with block: the lock is released, the handler returns
Release(h) ==
    /\ hPc[h] = "release"
    /\ SUBSCRIBER_LOCK' = IF SUBSCRIBER_LOCK = h THEN "free" ELSE SUBSCRIBER_LOCK
    /\ hPc' = [hPc EXCEPT ![h] = "idle"]
    /\ hId' = [hId EXCEPT ![h] = <<>>]
    /\ infos' = [infos EXCEPT ![h] = <<>>]
    /\ UNCHANGED <<pubVars, KNOWN_SUBSCRIBERS, started, batches, unlockedWrite,
                   brokerVars, fileVars, subVars, foreign, appendVars, extraVars>>

(* ------------------------ subscriber: JSON texts ---------------------- *)
\* a dict with one key
Dict1(k, v) == [x \in {k} |-> v]

\* {**a, **b}: the keys of both, b's value where both have the key
Merge(a, b) ==
    [k \in (DOMAIN a) \cup (DOMAIN b) |-> IF k \in DOMAIN b THEN b[k] ELSE a[k]]

Digits == {"0", "1", "2", "3", "4", "5", "6", "7", "8", "9"}
\* the JSON string "\ud800" (an escape, in ASCII) and the str it decodes to:
\* one unpaired surrogate, which no UTF-8 encoder accepts
SURROGATE_ESC == "\"\\ud800\""
LONE_SURROGATE == <<"U+D800">>
\* more tokens of a payload: backslash n, a backslash escape that neither
\* JSON nor Python knows, a character outside ASCII, and what the bytes of
\* that character (and of U+FFFD) are when read as Latin-1
ESC_NEWLINE == "\\n"
BAD_ESC == "\\x"
EACUTE == "e-acute"
MOJIBAKE_EACUTE == "A-tilde copyright"
MOJIBAKE_REPLACEMENT == "i-diaeresis inverted-question one-half"

\* U+FFFD, which decode(errors="replace") puts for bytes that are not UTF-8
REPLACEMENT == "\\ufffd"

\* a JSON number is kept apart from the JSON string of the same digits
INT_TAG == "<int>"

\* one token between the quotes of a JSON string: whether json accepts it,
\* and the character it stands for
StrOk(c) == c \notin {QUOTE, NEWLINE, BAD_UTF8, BAD_ESC, SURROGATE_ESC}
StrVal(c) == IF c = ESC_NEWLINE THEN NEWLINE ELSE IF c = ESC_QUOTE THEN QUOTE ELSE c

\* a list, and a number with a fraction or an exponent, are kept apart too
LIST_TAG == "<list>"
DICT_TAG == "<dict>"
FLOAT_TAG == "<float>"

IsDigits(t) == t # <<>> /\ \A i \in DOMAIN t : t[i] \in Digits

DigitVal(c) == CHOOSE n \in 0..9 : ToString(n) = c

\* the number that a sequence of digits writes
RECURSIVE Number(_)
Number(t) ==
    IF t = <<>> THEN 0
    ELSE Number(SubSeq(t, 1, Len(t) - 1)) * 10 + DigitVal(t[Len(t)])

Signed(t) == t # <<>> /\ Head(t) \in {"-", "+"}
Unsigned(t) == IF Signed(t) THEN Tail(t) ELSE t
SignOf(t) == IF t # <<>> /\ Head(t) = "-" THEN -1 ELSE 1

\* int(s) for a trimmed s: [ok, value]; an optional sign and digits, or
\* ValueError (ok = FALSE)
parse_int(s) ==
    [ok |-> IsDigits(Unsigned(s)),
     value |-> IF IsDigits(Unsigned(s)) THEN SignOf(s) * Number(Unsigned(s)) ELSE 0]

\* a decimal m * 10^e in its one normal form
RECURSIVE Normal(_, _)
Normal(m, e) ==
    IF m = 0 THEN <<0, 0>>
    ELSE IF m % 10 = 0 THEN Normal(m \div 10, e + 1)
    ELSE <<m, e>>

Without(t, c) == SelectSeq(t, LAMBDA x : x # c)
Positions(t, cs) == {i \in DOMAIN t : t[i] \in cs}

\* float(s) for a trimmed s: [ok, value]; sign, digits with at most one
\* point, and an optional exponent; ValueError otherwise
NoFloat == [ok |-> FALSE, value |-> <<0, 0>>]

FloatParts(mantissa, exponent, sign) ==
    LET points == Positions(mantissa, {"."})
        digits == Without(mantissa, ".")
    IN  IF Cardinality(points) <= 1 /\ IsDigits(digits) /\ exponent.ok
        THEN [ok |-> TRUE,
              value |-> Normal(sign * Number(digits),
                               exponent.value
                                 - (IF points = {} THEN 0
                                    ELSE Len(mantissa) - (CHOOSE i \in points : TRUE)))]
        ELSE NoFloat

\* the text before and after the exponent mark: no mark is exponent 0
FloatSplit(u, sign, es) ==
    IF Cardinality(es) > 1 THEN NoFloat
    ELSE FloatParts(IF es = {} THEN u ELSE SubSeq(u, 1, (CHOOSE i \in es : TRUE) - 1),
                    parse_int(IF es = {} THEN <<"0">>
                              ELSE SubSeq(u, (CHOOSE i \in es : TRUE) + 1, Len(u))),
                    sign)

parse_float(s) == FloatSplit(Unsigned(s), SignOf(s), Positions(Unsigned(s), {"e", "E"}))

\* a JSON number: no plus sign, no leading zero, digits on both sides of a
\* point; an int unless it has a fraction or an exponent
NoJson == [ok |-> FALSE, value |-> <<>>]

JsonNumberOf(u, stops, f) ==
    LET whole == SubSeq(u, 1, IF stops = {} THEN Len(u)
                              ELSE (CHOOSE i \in stops : \A j \in stops : i <= j) - 1)
    IN  IF /\ f.ok
           /\ IsDigits(whole) /\ (Len(whole) > 1 => whole[1] # "0")
           /\ \A i \in Positions(u, {"."}) : i < Len(u) /\ u[i + 1] \in Digits
        THEN [ok |-> TRUE,
              value |-> IF stops = {} THEN <<INT_TAG, ToString(f.value[1] * 10 ^ f.value[2])>>
                        ELSE <<FLOAT_TAG, ToString(f.value[1]), ToString(f.value[2])>>]
        ELSE NoJson

JsonNumber(t) ==
    IF t = <<>> \/ Head(t) \notin Digits \cup {"-"} THEN NoJson
    ELSE IF Len(t) = 1 /\ t[1] \in Digits THEN [ok |-> TRUE, value |-> <<INT_TAG, t[1]>>]
    ELSE JsonNumberOf(IF Head(t) = "-" THEN Tail(t) ELSE t,
                      Positions(IF Head(t) = "-" THEN Tail(t) ELSE t, {".", "e", "E"}),
                      parse_float(t))

\* a JSON string of one token, or "\ud800"
JsonString(t) ==
    IF Len(t) = 1 /\ t[1] = SURROGATE_ESC THEN [ok |-> TRUE, value |-> LONE_SURROGATE]
    ELSE IF Len(t) = 3 /\ t[1] = QUOTE /\ StrOk(t[2]) /\ t[3] = QUOTE
    THEN [ok |-> TRUE, value |-> <<StrVal(t[2])>>]
    ELSE NoJson

Either(a, b) == IF a.ok THEN a ELSE b

\* a JSON value that is no object and no list: a number or a string
JsonScalar(t) == Either(JsonNumber(t), JsonString(t))

JsonObject(key, v) ==
    [ok |-> v.ok, isDict |-> v.ok, value |-> IF v.ok THEN Dict1(StrVal(key), v.value) ELSE <<>>]

JsonOther(v) == [ok |-> v.ok, isDict |-> FALSE, value |-> v.value]

\* the text has the form {"k": ...}
KeyedObject(t) ==
    /\ Len(t) >= 7
    /\ t[1] = "{" /\ t[2] = QUOTE /\ StrOk(t[3]) /\ t[4] = QUOTE
    /\ t[5] = ":" /\ t[Len(t)] = "}"

\* an object with one key, or a scalar; v is the scalar read
JsonKeyed(t, v) == IF KeyedObject(t) THEN JsonObject(t[3], v) ELSE JsonOther(v)

JsonList(item) ==
    [ok |-> item.ok, isDict |-> FALSE,
     value |-> IF ~item.ok THEN <<>>
               ELSE IF item.isDict THEN <<LIST_TAG, DICT_TAG, item.value>>
               ELSE <<LIST_TAG, item.value>>]

\* json.loads(text): [ok, isDict, value]; an object {} or {"k": v}, a list
\* [] or [v], or a scalar, white space around it ignored; anything else
\* raises (ok = FALSE).  A value is the sequence of its characters, a list
\* the tag and the value of its item.
RECURSIVE JsonValue(_)
JsonValue(t) ==
    IF Len(t) >= 2 /\ t[1] = "{" /\ t[Len(t)] = "}" /\ Strip(SubSeq(t, 2, Len(t) - 1)) = <<>>
    THEN [ok |-> TRUE, isDict |-> TRUE, value |-> <<>>]
    ELSE IF Len(t) >= 2 /\ t[1] = "[" /\ t[Len(t)] = "]"
    THEN IF Strip(SubSeq(t, 2, Len(t) - 1)) = <<>>
         THEN [ok |-> TRUE, isDict |-> FALSE, value |-> <<LIST_TAG>>]
         ELSE JsonList(JsonValue(Strip(SubSeq(t, 2, Len(t) - 1))))
    ELSE JsonKeyed(t, JsonScalar(IF KeyedObject(t) THEN Strip(SubSeq(t, 6, Len(t) - 1))
                                 ELSE t))

json_loads(text) == JsonValue(Strip(text))

\* payload_text.encode("utf-8").decode("unicode_escape"): [ok, text].  Every
\* backslash escape is replaced by its character, every character outside
\* ASCII by the Latin-1 reading of its bytes; an unknown escape raises.
unicode_escape(text) ==
    [ok |-> \A i \in DOMAIN text : text[i] # BAD_ESC,
     text |-> [i \in 1..Len(text) |->
                 IF text[i] = ESC_QUOTE THEN QUOTE
                 ELSE IF text[i] = ESC_NEWLINE THEN NEWLINE
                 ELSE IF text[i] = EACUTE THEN MOJIBAKE_EACUTE
                 ELSE IF text[i] = REPLACEMENT THEN MOJIBAKE_REPLACEMENT
                 ELSE text[i]]]

\* every escaped quote of the text replaced by a quote
Unquote(text) == [i \in 1..Len(text) |-> IF text[i] = ESC_QUOTE THEN QUOTE ELSE text[i]]

\* the second attempt: json.loads of the un-escaped text, if there is one
Unescaped(u) ==
    IF u.ok THEN json_loads(u.text) ELSE [ok |-> FALSE, isDict |-> FALSE, value |-> <<>>]

\* faulty variant: the escaped quotes are replaced before the un-escape stage
try_parse_quotes_first(payload_text) ==
    Either(json_loads(payload_text),
           Either(json_loads(Unquote(payload_text)),
                  Either(Unescaped(unicode_escape(payload_text)),
                         json_loads(payload_text))))

\* try_parse_json_payload: direct parse, un-escape then parse, replace escaped
\* quotes then parse; the first that succeeds, else ValueError (ok = FALSE)
try_parse_json_payload(payload_text) ==
    Either(json_loads(payload_text),
           Either(Unescaped(unicode_escape(payload_text)),
                  json_loads(Unquote(payload_text))))

(* ---------------------- subscriber: the log files --------------------- *)
\* a file: whether it exists, and its bytes.  The bytes of a JSON file are
\* punctuation tokens and the objects between them.
NoFile == [exists |-> FALSE, bytes |-> <<>>]
File(b) == [exists |-> TRUE, bytes |-> b]
Tok(x) == [p |-> x]
Obj(d) == [o |-> d]
IsObj(t) == DOMAIN t = {"o"}

\* json.dump(data, fh) for a list of objects
RECURSIVE DumpElems(_)
DumpElems(data) ==
    IF data = <<>> THEN <<>>
    ELSE IF Len(data) = 1 THEN <<Obj(data[1])>>
    ELSE <<Obj(data[1]), Tok(",")>> \o DumpElems(Tail(data))

json_dump(data) == <<Tok("[")>> \o DumpElems(data) \o <<Tok("]")>>

\* the elements between the brackets: [ok, data]
RECURSIVE LoadElems(_)
LoadElems(b) ==
    IF Len(b) = 1 /\ IsObj(b[1]) THEN [ok |-> TRUE, data |-> <<b[1].o>>]
    ELSE IF Len(b) >= 3 /\ IsObj(b[1]) /\ b[2] = Tok(",")
    THEN LET rest == LoadElems(SubSeq(b, 3, Len(b))) IN
         [ok |-> rest.ok, data |-> <<b[1].o>> \o rest.data]
    ELSE [ok |-> FALSE, data |-> <<>>]

\* json.load(fh): [ok, isList, data]; ok = FALSE when it raises
json_load(b) ==
    IF Len(b) = 1 /\ IsObj(b[1]) THEN [ok |-> TRUE, isList |-> FALSE, data |-> <<>>]
    ELSE IF Len(b) = 2 /\ b[1] = Tok("[") /\ b[2] = Tok("]")
    THEN [ok |-> TRUE, isList |-> TRUE, data |-> <<>>]
    ELSE IF Len(b) >= 3 /\ b[1] = Tok("[") /\ b[Len(b)] = Tok("]")
    THEN LET e == LoadElems(SubSeq(b, 2, Len(b) - 1)) IN
         [ok |-> e.ok, isList |-> e.ok, data |-> e.data]
    ELSE [ok |-> FALSE, isList |-> FALSE, data |-> <<>>]

\* what a write that fails leaves of the bytes it was writing: open(.., "w")
\* has truncated the file; nothing, or all but the end, was written
Truncated(b, fail) == IF fail = "empty" THEN <<>> ELSE SubSeq(b, 1, Len(b) - 1)
JsonFails == {"none", "empty", "part"}

\* the file object's encoder accepts every str of the object
Encodable(d) == \A k \in DOMAIN d : d[k] # LONE_SURROGATE

\* with open(filename, "w") as fh: json.dump(data, fh, ensure_ascii=False):
\* [bytes, raised].  The dump is written piece by piece: at the first str
\* the encoder refuses, fh.write raises and the file keeps what was written
\* before it, the opening of that object included.
RECURSIVE WrittenBefore(_)
WrittenBefore(data) ==
    IF Encodable(Head(data)) THEN <<Obj(Head(data)), Tok(",")>> \o WrittenBefore(Tail(data))
    ELSE <<Tok("{")>>

write_json(data, fail) ==
    IF \E i \in DOMAIN data : ~Encodable(data[i])
    THEN [bytes |-> <<Tok("[")>> \o WrittenBefore(data), raised |-> TRUE]
    ELSE IF fail # "none"
    THEN [bytes |-> Truncated(json_dump(data), fail), raised |-> TRUE]
    ELSE [bytes |-> json_dump(data), raised |-> FALSE]

\* append_json_record(record): the files after the call, and whether it raised.
\* A file that does not decode to a list is renamed to the .bak file (which
\* the rename replaces) and the array starts empty.
append_json_record(log, bak, record, fail) ==
    IF ~log.exists
    THEN LET w == write_json(<<record>>, fail) IN
         [log |-> File(w.bytes), bak |-> bak, raised |-> w.raised]
    ELSE LET r == json_load(log.bytes)
             valid == r.ok /\ r.isList
             data == IF valid THEN r.data ELSE <<>>
             w == write_json(Append(data, record), fail)
         IN  [log |-> File(w.bytes),
              bak |-> IF valid THEN bak ELSE File(log.bytes),
              raised |-> w.raised]

(* ------------------------ subscriber: callbacks ----------------------- *)
\* the broker as a client's callback sees it, and the calls the callback made
Broker0 == [topics |-> topics, queue |-> queue, ops |-> <<>>]

\* client.subscribe(topic, qos)
ClientSubscribe(b, c, t, q) ==
    [b EXCEPT !.topics[c] = @ \cup {[topic |-> t, qos |-> q]},
              !.ops = Append(@, [op |-> "subscribe", topic |-> t, qos |-> q,
                                 payload |-> <<>>])]

\* client.publish(topic, payload, qos)
ClientPublish(b, t, p, q) ==
    [b EXCEPT !.queue = Route(b.topics, b.queue, Msg(t, p, q)),
              !.ops = Append(@, [op |-> "publish", topic |-> t, qos |-> q,
                                 payload |-> p])]

\* faulty variant: the announcement is published before the subscriptions are made
on_connect_announce_first(s, reason_code) ==
    IF reason_code = 0
    THEN ClientSubscribe(
             ClientSubscribe(
                 ClientPublish(Broker0, STATUS_TOPIC, <<CLIENT_ID(s)>>, 1),
                 s, TOPIC, QOS),
             s, HEARTBEAT_TOPIC, 0)
    ELSE Broker0

\* on_connect: on success subscribe to the data topic, subscribe to the
\* heartbeat topic, announce; otherwise only log
on_connect(s, reason_code) ==
    IF reason_code = 0
    THEN ClientPublish(
             ClientSubscribe(
                 ClientSubscribe(Broker0, s, TOPIC, QOS),
                 s, HEARTBEAT_TOPIC, 0),
             STATUS_TOPIC, <<CLIENT_ID(s)>>, 1)
    ELSE Broker0

\* payload.decode("utf-8", errors="replace")
DecodeReplace(p) == [i \in 1..Len(p) |-> IF p[i] = BAD_UTF8 THEN REPLACEMENT ELSE p[i]]

\* f"[{timestamp}] Topic: {topic} | Message: {message}\n"
log_entry(topic, message) ==
    <<"[ts] Topic: ", topic, " | Message: ">> \o message \o <<NEWLINE>>

\* the record logged for a data message: the parsed object, {"value": parsed}
\* or {"raw": message}, under the metadata keys
final_record(s, topic, message) ==
    LET parsed == try_parse_json_payload(message)
        record == IF parsed.ok
                  THEN IF parsed.isDict THEN parsed.value
                       ELSE Dict1("value", parsed.value)
                  ELSE Dict1("raw", message)
        record_meta == [k \in {"_received_at", "_topic", "_client_id"} |->
                          IF k = "_received_at" THEN <<"ts">>
                          ELSE IF k = "_topic" THEN <<topic>> ELSE <<CLIENT_ID(s)>>]
    IN  Merge(record_meta, record)

\* faulty variant: the heartbeat payload is stripped before it is compared
on_message_stripped(s, msg, textFail, jsonFail) ==
    LET same == [b |-> Broker0, text |-> TEXT_LOG[s], log |-> JSON_LOG[s],
                 bak |-> JSON_BAK[s], escaped |-> FALSE]
    IN
    IF msg.topic = HEARTBEAT_TOPIC
    THEN IF Strip(DecodeReplace(msg.payload)) = <<"ready">>
         THEN [same EXCEPT !.b = ClientPublish(Broker0, STATUS_TOPIC,
                                               <<CLIENT_ID(s)>>, 1)]
         ELSE same
    ELSE IF msg.topic = TOPIC
    THEN LET message == DecodeReplace(msg.payload)
             a == append_json_record(JSON_LOG[s], JSON_BAK[s],
                                     final_record(s, msg.topic, message), jsonFail)
         IN  [b |-> Broker0,
              text |-> IF textFail THEN TEXT_LOG[s]
                       ELSE TEXT_LOG[s] \o log_entry(msg.topic, message),
              log |-> a.log,
              bak |-> a.bak,
              escaped |-> FALSE]
    ELSE same

\* on_message(msg): what the callback leaves: the broker, the three files, and
\* whether an exception left the callback.  textFail, jsonFail: the file
\* operations that fail during this call.
on_message(s, msg, textFail, jsonFail) ==
    LET same == [b |-> Broker0, text |-> TEXT_LOG[s], log |-> JSON_LOG[s],
                 bak |-> JSON_BAK[s], escaped |-> FALSE]
    IN
    IF msg.topic = HEARTBEAT_TOPIC
    THEN IF DecodeReplace(msg.payload) = <<"ready">>
         THEN [same EXCEPT !.b = ClientPublish(Broker0, STATUS_TOPIC,
                                               <<CLIENT_ID(s)>>, 1)]
         ELSE same
    ELSE IF msg.topic = TOPIC
    THEN LET message == DecodeReplace(msg.payload)
             a == append_json_record(JSON_LOG[s], JSON_BAK[s],
                                     final_record(s, msg.topic, message), jsonFail)
         IN  [b |-> Broker0,
              text |-> IF textFail THEN TEXT_LOG[s]
                       ELSE TEXT_LOG[s] \o log_entry(msg.topic, message),
              log |-> a.log,
              bak |-> a.bak,
              escaped |-> FALSE]
    ELSE same

(* ------------------------ subscriber: process ------------------------- *)
\* main: client.connect raises (main returns) or the connection is requested
SubConnect(s) ==
    /\ subPc[s] = "init"
    /\ \E ok \in BOOLEAN :
          subPc' = [subPc EXCEPT ![s] = IF ok THEN "connecting" ELSE "exited"]
    /\ UNCHANGED <<pubVars, hVars, brokerVars, fileVars, lastRc, lastOps,
                   reconnects, foreign, appendVars, extraVars>>

\* loop_forever: the broker answers the connect request, on_connect is called;
\* a refused connection is closed
SubOnConnect(s) ==
    /\ subPc[s] = "connecting"
    /\ \E reason_code \in {0, 5} :
          LET b == on_connect(s, reason_code) IN
          /\ topics' = b.topics
          /\ queue' = b.queue
          /\ lastOps' = [lastOps EXCEPT ![s] = b.ops]
          /\ lastRc' = [lastRc EXCEPT ![s] = reason_code]
          /\ subPc' = [subPc EXCEPT ![s] = IF reason_code = 0 THEN "up" ELSE "down"]
    /\ UNCHANGED <<pubVars, hVars, fileVars, reconnects, foreign, appendVars, extraVars>>

\* the connection is lost: on_disconnect logs; the broker drops the clean
\* session (its subscriptions and queued messages)
SubLost(s) ==
    /\ subPc[s] = "up"
    /\ reconnects < MaxReconnects
    /\ reconnects' = reconnects + 1
    /\ subPc' = [subPc EXCEPT ![s] = "down"]
    /\ topics' = [topics EXCEPT ![s] = {}]
    /\ queue' = [queue EXCEPT ![s] = <<>>]
    /\ UNCHANGED <<pubVars, hVars, fileVars, lastRc, lastOps, foreign, appendVars, extraVars>>

\* loop_forever connects again
SubReconnect(s) ==
    /\ subPc[s] = "down"
    /\ subPc' = [subPc EXCEPT ![s] = "connecting"]
    /\ UNCHANGED <<pubVars, hVars, brokerVars, fileVars, lastRc, lastOps,
                   reconnects, foreign, appendVars, extraVars>>

Cost(textFail, jsonFail) ==
    (IF textFail THEN 1 ELSE 0) + (IF jsonFail # "none" THEN 1 ELSE 0)

\* loop_forever hands the next queued message to on_message; an exception
\* that leaves the callback ends loop_forever and the process.  faulty: file
\* operations may fail during the call.
SubOnMessage(s, faulty) ==
    /\ subPc[s] = "up"
    /\ queue[s] # <<>>
    /\ LET msg == Head(queue[s]) IN
       \E textFail \in BOOLEAN, jsonFail \in JsonFails :
          /\ (msg.topic # TOPIC \/ ~faulty) => ~textFail /\ jsonFail = "none"
          /\ ioFaults + Cost(textFail, jsonFail) <= MaxIoFaults
          /\ ioFaults' = ioFaults + Cost(textFail, jsonFail)
          /\ LET r == on_message(s, msg, textFail, jsonFail) IN
             /\ topics' = r.b.topics
             /\ queue' = [r.b.queue EXCEPT ![s] = Tail(@)]
             /\ lastOps' = [lastOps EXCEPT ![s] = r.b.ops]
             /\ TEXT_LOG' = [TEXT_LOG EXCEPT ![s] = r.text]
             /\ JSON_LOG' = [JSON_LOG EXCEPT ![s] = r.log]
             /\ JSON_BAK' = [JSON_BAK EXCEPT ![s] = r.bak]
             /\ subPc' = [subPc EXCEPT ![s] = IF r.escaped THEN "exited" ELSE "up"]
          /\ received' = [received EXCEPT ![s] =
                            IF msg.topic = TOPIC
                            THEN Append(@, DecodeReplace(msg.payload)) ELSE @]
    /\ UNCHANGED <<pubVars, hVars, lastRc, reconnects, foreign, appendVars, extraVars>>

(* ------------------------------ environment --------------------------- *)
\* the subscriber process the stand-alone specifications run
Solo == "s1"
\* the network thread of the publisher's client (loop_start)
NetThread == "h1"

\* payloads other clients publish to the status topic: the identifiers, one
\* with white space around it, and bytes that are not UTF-8
StatusPayloads == {<<"s1">>, <<"s2">>, <<SPACE, "s1">>, <<BAD_UTF8>>}

\* a client publishes to the status topic
StatusArrives ==
    /\ Subscribed(topics, PUB, STATUS_TOPIC)
    /\ Len(queue[PUB]) < MaxQueued
    /\ \E p \in StatusPayloads :
          queue' = Route(topics, queue, Msg(STATUS_TOPIC, p, 1))
    /\ UNCHANGED <<pubVars, hVars, topics, fileVars, subVars, foreign, appendVars, extraVars>>

\* messages the broker may hand to a subscriber's on_message
SubInputs ==
    { Msg(TOPIC, json_dumps(records[1]), QOS),
      Msg(TOPIC, <<"a", NEWLINE, "b">>, 0),
      Msg(TOPIC, <<"7">>, 0),
      Msg(TOPIC, <<"{", QUOTE, "a", QUOTE, ":", SURROGATE_ESC, "}">>, 0),
      Msg(HEARTBEAT_TOPIC, <<"ready">>, 0),
      Msg(HEARTBEAT_TOPIC, <<"ready", SPACE>>, 0),
      Msg(OTHER_TOPIC, <<"ready">>, 0),
      Msg(STATUS_TOPIC, <<"ready">>, 1) }

\* the broker has a message for a connected subscriber
Deliver(s) ==
    /\ subPc[s] = "up"
    /\ foreign < MaxForeign
    /\ Len(queue[s]) < MaxQueued
    /\ foreign' = foreign + 1
    /\ \E m \in SubInputs : queue' = [queue EXCEPT ![s] = Append(@, m)]
    /\ UNCHANGED <<pubVars, hVars, topics, fileVars, subVars, appendVars, extraVars>>

\* records passed to append_json_record
AppendRecords ==
    { final_record(Solo, TOPIC, m) :
        m \in {json_dumps(records[1]), <<"7">>, <<"a", NEWLINE, "b">>,
               <<"{", QUOTE, "a", QUOTE, ":", SURROGATE_ESC, "}">>} }

\* what messages.json may be when the subscriber starts: absent, an array
\* written by an earlier run, an object, not JSON, empty
InitialFiles ==
    {NoFile, File(<<>>), File(<<Tok("x")>>), File(json_dump(<<>>))}
    \cup {File(json_dump(<<r>>)) : r \in AppendRecords}
    \cup {File(<<Obj(r)>>) : r \in AppendRecords}
InitialBaks == {NoFile, File(<<Tok("old")>>)}

\* one call append_json_record(rec) during which no file operation fails
AppendCall ==
    /\ Len(calls) < MaxAppends
    /\ \E rec \in AppendRecords :
          LET a == append_json_record(JSON_LOG[Solo], JSON_BAK[Solo], rec, "none") IN
          /\ JSON_LOG' = [JSON_LOG EXCEPT ![Solo] = a.log]
          /\ JSON_BAK' = [JSON_BAK EXCEPT ![Solo] = a.bak]
          /\ calls' = Append(calls, rec)
          /\ appendRaised' = a.raised
    /\ UNCHANGED <<pubVars, hVars, brokerVars, subVars, foreign, TEXT_LOG,
                   received, ioFaults, file0, bak0, extraVars>>

\* one call append_json_record(rec) whose rewrite is cut short (the write
\* raises, or the process is killed); the next run starts from what it left
AppendCut ==
    /\ ioFaults < MaxIoFaults
    /\ ioFaults' = ioFaults + 1
    /\ \E rec \in AppendRecords, fail \in JsonFails \ {"none"} :
          LET a == append_json_record(JSON_LOG[Solo], JSON_BAK[Solo], rec, fail) IN
          /\ JSON_LOG' = [JSON_LOG EXCEPT ![Solo] = a.log]
          /\ JSON_BAK' = [JSON_BAK EXCEPT ![Solo] = a.bak]
          /\ file0' = a.log
          /\ bak0' = a.bak
          /\ calls' = <<>>
          /\ appendRaised' = a.raised
    /\ UNCHANGED <<pubVars, hVars, brokerVars, subVars, foreign, TEXT_LOG, received,
                   extraVars>>

\* decoded payloads of data messages: objects {"k": v} whose quotes are plain
\* or escaped, scalars, and texts that are no JSON
ParseQuotes == {QUOTE, ESC_QUOTE}
ParseKeys == {"id", "_topic", "raw"}
ParseChars == {"x", ESC_NEWLINE, EACUTE, NEWLINE, BAD_ESC, REPLACEMENT}
ParseScalars ==
    {<<"7">>, <<SURROGATE_ESC>>} \cup {<<q, c, q>> : q \in ParseQuotes, c \in ParseChars}
ParseInputs ==
    {<<"{", q, k, q, ":">> \o v \o <<"}">> :
        q \in ParseQuotes, k \in ParseKeys, v \in ParseScalars}
    \cup ParseScalars
    \cup {<<>>, <<"{">>, <<"a", NEWLINE, "b">>, <<NEWLINE, "7", SPACE>>, <<ESC_NEWLINE, "7">>}

\* on_message builds the record of a data message whose decoded payload is
\* parse_input
ParsePayload ==
    /\ parse_input \in ParseInputs
    /\ parse_output = <<>>
    /\ parse_output' = <<final_record(Solo, TOPIC, parse_input)>>
    /\ UNCHANGED <<pubVars, hVars, brokerVars, fileVars, subVars, foreign, appendVars,
                   parse_input, envVars, waitVars, coerceVars, lockVars>>

(* ---------------------------- specifications -------------------------- *)
(* ------------- subscriber: on_message, one statement at a time -------- *)
\* the threads that call on_message, and the number of calls
Threads == {"t1", "t2"}
MaxHandled == 3

\* the payloads of the data messages handled
LockPayloads == {json_dumps(records[1]), <<"7">>}

LockOthersUnchanged ==
    UNCHANGED <<pubVars, hVars, brokerVars, subVars, foreign, appendVars,
                parseVars, envVars, waitVars, coerceVars, received, ioFaults>>

\* on_message is called with a message on the data topic: the payload is
\* decoded and the log entry is formatted
OmEnter(t) ==
    /\ omPc[t] = "idle"
    /\ handled < MaxHandled
    /\ \E p \in LockPayloads :
          omMessage' = [omMessage EXCEPT ![t] = DecodeReplace(p)]
    /\ omPc' = [omPc EXCEPT ![t] = "open_text"]
    /\ handled' = handled + 1
    /\ UNCHANGED <<JSON_LOCK, TEXT_LOG, JSON_LOG, JSON_BAK>>
    /\ LockOthersUnchanged

\* with open(TEXT_LOG, "a") as f
OmOpenText(t) ==
    /\ omPc[t] = "open_text"
    /\ omPc' = [omPc EXCEPT ![t] = "write_text"]
    /\ UNCHANGED <<JSON_LOCK, omMessage, handled, TEXT_LOG, JSON_LOG, JSON_BAK>>
    /\ LockOthersUnchanged

\* f.write(log_entry), and the file is closed
OmWriteText(t) ==
    /\ omPc[t] = "write_text"
    /\ TEXT_LOG' = [TEXT_LOG EXCEPT ![Solo] = @ \o log_entry(TOPIC, omMessage[t])]
    /\ omPc' = [omPc EXCEPT ![t] = "acquire"]
    /\ UNCHANGED <<JSON_LOCK, omMessage, handled, JSON_LOG, JSON_BAK>>
    /\ LockOthersUnchanged

\* the record is built; append_json_record: with JSON_LOCK
OmAcquire(t) ==
    /\ omPc[t] = "acquire"
    /\ JSON_LOCK = "free"
    /\ JSON_LOCK' = t
    /\ omPc' = [omPc EXCEPT ![t] = "append"]
    /\ UNCHANGED <<omMessage, handled, TEXT_LOG, JSON_LOG, JSON_BAK>>
    /\ LockOthersUnchanged

\* the body of append_json_record; the lock is released, on_message returns
OmAppend(t) ==
    /\ omPc[t] = "append"
    /\ LET a == append_json_record(JSON_LOG[Solo], JSON_BAK[Solo],
                                   final_record(Solo, TOPIC, omMessage[t]), "none")
       IN  /\ JSON_LOG' = [JSON_LOG EXCEPT ![Solo] = a.log]
           /\ JSON_BAK' = [JSON_BAK EXCEPT ![Solo] = a.bak]
    /\ JSON_LOCK' = IF JSON_LOCK = t THEN "free" ELSE JSON_LOCK
    /\ omPc' = [omPc EXCEPT ![t] = "idle"]
    /\ omMessage' = [omMessage EXCEPT ![t] = <<>>]
    /\ UNCHANGED <<handled, TEXT_LOG>>
    /\ LockOthersUnchanged

(* ------------------- publisher: auto_convert_record ------------------- *)
\* Python values: a str is the sequence of its characters
StrV(s) == [type |-> "str", v |-> s]
IntV(n) == [type |-> "int", v |-> n]
FloatV(me) == [type |-> "float", v |-> me]
BoolV(b) == [type |-> "bool", v |-> b]
DictV(d) == [type |-> "dict", v |-> d]
ListV(l) == [type |-> "list", v |-> l]
NoneV == [type |-> "NoneType", v |-> <<>>]

\* str.lower(), for the letters that occur
UpperCase == {"T", "R", "U", "E", "Y", "S", "O", "N", "F"}
LowerOf(c) ==
    CASE c = "T" -> "t" [] c = "R" -> "r" [] c = "U" -> "u" [] c = "E" -> "e"
      [] c = "Y" -> "y" [] c = "S" -> "s" [] c = "O" -> "o" [] c = "N" -> "n"
      [] c = "F" -> "f" [] OTHER -> c
lower(s) == [i \in 1..Len(s) |-> LowerOf(s[i])]

Truthy ==
    {<<"t", "r", "u", "e">>, <<"t">>, <<"y", "e", "s">>, <<"y">>, <<"1">>, <<"o", "n">>}
Falsy ==
    {<<"f", "a", "l", "s", "e">>, <<"f">>, <<"n", "o">>, <<"n">>, <<"0">>, <<"o", "f", "f">>}

\* s.startswith(a) and s.endswith(b)
Wrapped(s, a, b) == s # <<>> /\ s[1] = a /\ s[Len(s)] = b

\* faulty variant: the vocabulary is tried before the numbers
auto_convert_bool_first(val) ==
    IF val.type # "str" THEN val
    ELSE LET s == Strip(val.v)
             low == lower(s)
         IN  IF low \in Truthy THEN BoolV(TRUE)
             ELSE IF low \in Falsy THEN BoolV(FALSE)
             ELSE IF s # <<>> /\ Positions(s, {"."}) = {} /\ parse_int(s).ok
             THEN IntV(parse_int(s).value)
             ELSE IF s # <<>> /\ parse_float(s).ok THEN FloatV(parse_float(s).value)
             ELSE StrV(s)

\* faulty variant: a missing value becomes the empty string
auto_convert_none_as_text(val) ==
    IF val.type = "NoneType" THEN StrV(<<>>)
    ELSE IF val.type # "str" THEN val
    ELSE LET s == Strip(val.v)
             low == lower(s)
         IN  IF s # <<>> /\ Positions(s, {"."}) = {} /\ parse_int(s).ok
             THEN IntV(parse_int(s).value)
             ELSE IF s # <<>> /\ parse_float(s).ok THEN FloatV(parse_float(s).value)
             ELSE IF low \in Truthy THEN BoolV(TRUE)
             ELSE IF low \in Falsy THEN BoolV(FALSE)
             ELSE IF (Wrapped(s, "{", "}") \/ Wrapped(s, "[", "]")) /\ json_loads(s).ok
             THEN (IF json_loads(s).isDict THEN DictV(json_loads(s).value)
                   ELSE ListV(json_loads(s).value))
             ELSE StrV(s)

\* auto_convert_record, one round of its loop: the value stored for a field
\* whose value is val.  Every exception of int, float and json.loads is
\* caught and leads to the next attempt.
auto_convert_value(val) ==
    IF val.type # "str" THEN val
    ELSE LET s == Strip(val.v)
             low == lower(s)
         IN  IF s # <<>> /\ Positions(s, {"."}) = {} /\ parse_int(s).ok
             THEN IntV(parse_int(s).value)
             ELSE IF s # <<>> /\ parse_float(s).ok THEN FloatV(parse_float(s).value)
             ELSE IF low \in Truthy THEN BoolV(TRUE)
             ELSE IF low \in Falsy THEN BoolV(FALSE)
             ELSE IF (Wrapped(s, "{", "}") \/ Wrapped(s, "[", "]")) /\ json_loads(s).ok
             THEN (IF json_loads(s).isDict THEN DictV(json_loads(s).value)
                   ELSE ListV(json_loads(s).value))
             ELSE StrV(s)

auto_convert_record(rec) == [k \in DOMAIN rec |-> auto_convert_value(rec[k])]

\* the longest field value
MaxText == 3

\* the field values of the rows: every text of up to MaxText of these
\* characters, some words, and values that are no strings
CoerceChars == {SPACE, "0", "1", ".", "-", "e", "t", "n", "[", "]", "{", "}"}

RECURSIVE Texts(_)
Texts(n) ==
    IF n = 0 THEN {<<>>}
    ELSE Texts(n - 1) \cup {Append(t, c) : t \in Texts(n - 1), c \in CoerceChars}

CoerceWords ==
    {<<"t", "r", "u", "e">>, <<"T", "R", "U", "E">>, <<SPACE, "T", "r", "u", "e", NEWLINE>>,
     <<"y", "e", "s">>, <<"Y">>, <<"o", "n">>, <<"O", "N">>,
     <<"f", "a", "l", "s", "e">>, <<"F">>, <<"n", "o">>, <<"o", "f", "f">>,
     <<"+", "1">>, <<"1", "E", "1">>, <<"1", "e", "-", "1">>, <<"0", ".", "1", "0">>,
     <<"{", QUOTE, "k", QUOTE, ":", "1", "}">>, <<"{", QUOTE, "k", QUOTE, ":", "}">>,
     <<"[", "1", "0", "]">>, <<"[", "0", "1", "]">>, <<"[", "[", "]", "]">>,
     <<"[", "{", "}", "]">>, <<"[", "1", ".", "]">>, <<"[", "-", "1", "]">>,
     <<"a", SPACE, "b">>}

NonStrings == {NoneV, IntV(1), FloatV(<<1, 0>>), BoolV(TRUE), ListV(<<LIST_TAG>>)}

CoerceRecords ==
    {[id |-> StrV(t)] : t \in Texts(MaxText) \cup CoerceWords}
    \cup {[id |-> x] : x \in NonStrings}
    \cup {[id |-> StrV(<<"1">>), active |-> StrV(<<"t", "r", "u", "e">>)],
          [id |-> StrV(<<SPACE, "1">>), active |-> NoneV],
          [id |-> IntV(1), active |-> StrV(<<"n", "o">>)]}

\* auto_convert_record(r) for a loaded row r
Coerce ==
    /\ coerce_out = <<>>
    /\ coerce_out' = <<auto_convert_record(coerce_in)>>
    /\ UNCHANGED <<coerce_in, coerce_again>>
    /\ UNCHANGED <<pubVars, hVars, brokerVars, fileVars, subVars, foreign, appendVars,
                   parseVars, envVars, waitVars, lockVars>>

\* auto_convert_record applied to its own result
CoerceAgain ==
    /\ coerce_out # <<>>
    /\ coerce_again = <<>>
    /\ coerce_again' = <<auto_convert_record(coerce_out[1])>>
    /\ UNCHANGED <<coerce_in, coerce_out>>
    /\ UNCHANGED <<pubVars, hVars, brokerVars, fileVars, subVars, foreign, appendVars,
                   parseVars, envVars, waitVars, lockVars>>

(* --------------------------- wait_for_broker -------------------------- *)
\* the largest TIMEOUT, in ticks of the clock
MaxTimeout == 3

\* the command lines wait_for_broker is started with: none, a command that
\* os.execvp finds, and one it does not find
WaitCommands == {<<>>, <<"python", "publisher.py">>, <<"no-such-command">>}
OnPath == {"python"}

OtherProgramsUnchanged ==
    UNCHANGED <<pubVars, hVars, brokerVars, fileVars, subVars, foreign, appendVars,
                parseVars, envVars, coerceVars, lockVars>>

\* while time.time() < deadline
WaitTest ==
    /\ wait_pc = "while"
    /\ wait_pc' = IF now < deadline THEN "connect" ELSE "exit1"
    /\ UNCHANGED <<now, deadline, argv, connects>>
    /\ OtherProgramsUnchanged

\* mqtt.Client(); connect; disconnect: it raises, or the broker accepted and
\* the command, if there is one, is to be executed; sys.exit(0) otherwise.
\* The attempt takes no time or one tick.
WaitConnect ==
    /\ wait_pc = "connect"
    /\ \E ok \in BOOLEAN, dt \in 0..1 :
          /\ now' = now + dt
          /\ connects' = IF ok THEN connects + 1 ELSE connects
          /\ wait_pc' = IF ~ok THEN "sleep"
                        ELSE IF Len(argv) > 0 THEN "execvp"
                        ELSE "exit0"
    /\ UNCHANGED <<deadline, argv>>
    /\ OtherProgramsUnchanged

\* os.execvp(cmd[0], cmd): the process image is replaced, or execvp raises
\* OSError, which the loop's except Exception catches like a failed connect
WaitExec ==
    /\ wait_pc = "execvp"
    /\ wait_pc' = IF argv[1] \in OnPath THEN "replaced" ELSE "sleep"
    /\ UNCHANGED <<now, deadline, argv, connects>>
    /\ OtherProgramsUnchanged

\* except Exception: the message is printed, time.sleep(SLEEP)
WaitSleep ==
    /\ wait_pc = "sleep"
    /\ now' = now + 1
    /\ wait_pc' = "while"
    /\ UNCHANGED <<deadline, argv, connects>>
    /\ OtherProgramsUnchanged

\* the exit status of wait_for_broker once it has ended (-1: it has not, or
\* another program has taken its place)
WaitExitStatus ==
    IF wait_pc = "exit0" THEN 0 ELSE IF wait_pc = "exit1" THEN 1 ELSE -1

InitPrograms ==
    /\ pubPc = "start"
    /\ attempt = 1
    /\ handlerSet = FALSE
    /\ heartbeat_count = 0
    /\ beats = 0
    /\ lastBeat = <<>>
    /\ KNOWN_SUBSCRIBERS = {}
    /\ SUBSCRIBER_LOCK = "free"
    /\ hPc = [h \in Handlers |-> "idle"]
    /\ hId = [h \in Handlers |-> <<>>]
    /\ infos = [h \in Handlers |-> <<>>]
    /\ started = <<>>
    /\ batches = <<>>
    /\ unlockedWrite = FALSE
    /\ topics = [c \in Clients |-> {}]
    /\ queue = [c \in Clients |-> <<>>]
    /\ subPc = [s \in Subs |-> "init"]
    /\ lastRc = [s \in Subs |-> 0]
    /\ lastOps = [s \in Subs |-> <<>>]
    /\ TEXT_LOG = [s \in Subs |-> <<>>]
    /\ received = [s \in Subs |-> <<>>]
    /\ foreign = 0
    /\ reconnects = 0
    /\ ioFaults = 0
    /\ calls = <<>>
    /\ appendRaised = FALSE

\* no payload is being parsed on its own
ParseIdle == parse_input = <<>> /\ parse_output = <<>>

\* the link to the broker stays up and every publish is acknowledged in time
PromptAcks == acks = "in_time"

\* wait_for_broker is not running
WaitIdle ==
    wait_pc = "off" /\ now = 0 /\ deadline = 0 /\ argv = <<>> /\ connects = 0

\* no row is being converted on its own
CoerceIdle == coerce_in = <<>> /\ coerce_out = <<>> /\ coerce_again = <<>>

\* no thread is inside on_message step by step
LockIdle ==
    /\ JSON_LOCK = "free"
    /\ omPc = [t \in Threads |-> "idle"]
    /\ omMessage = [t \in Threads |-> <<>>]
    /\ handled = 0

ToolsIdle == WaitIdle /\ CoerceIdle /\ LockIdle

InitBase == InitPrograms /\ ParseIdle /\ cfg = DefaultConfig /\ PromptAcks /\ ToolsIdle

\* both programs start; no log file exists yet
Init ==
    /\ InitBase
    /\ JSON_LOG = [s \in Subs |-> NoFile]
    /\ JSON_BAK = [s \in Subs |-> NoFile]
    /\ file0 = NoFile
    /\ bak0 = NoFile

\* the subscriber starts with the files an earlier run left
InitAppend ==
    /\ InitBase
    /\ \E f \in InitialFiles, b \in InitialBaks :
          /\ JSON_LOG = [s \in Subs |-> IF s = Solo THEN f ELSE NoFile]
          /\ JSON_BAK = [s \in Subs |-> IF s = Solo THEN b ELSE NoFile]
          /\ file0 = f
          /\ bak0 = b

PubMain ==
    \/ LoadConfig \/ Connect \/ ConnectRetryDelay
    \/ LoopStart \/ SubscribeStatus \/ SetHandler
    \/ Heartbeat \/ Interrupt \/ LoopStop \/ Disconnect

HandlerStep(h) ==
    \/ Dispatch(h) \/ Acquire(h) \/ Check(h) \/ Add(h)
    \/ Publish(h) \/ Grace(h) \/ Release(h)

\* the system: the publisher, two subscribers and the broker between them
Next ==
    \/ LoadConfig \/ Connect \/ ConnectRetryDelay
    \/ LoopStart \/ SubscribeStatus \/ SetHandler
    \/ (beats < MaxHeartbeats /\ Heartbeat)
    \/ Interrupt \/ LoopStop \/ Disconnect
    \/ HandlerStep(NetThread)
    \/ \E s \in Subs : SubConnect(s)
    \/ \E s \in Subs : SubOnConnect(s)
    \/ \E s \in Subs : SubReconnect(s)
    \/ \E s \in Subs : SubOnMessage(s, FALSE)

Spec == Init /\ [][Next]_vars

\* the publisher, other clients that announce themselves on the status
\* topic, and one subscriber that connects and then is not scheduled again:
\* its queue keeps, in order, everything the broker hands it
NextOneSub ==
    \/ LoadConfig \/ Connect \/ ConnectRetryDelay
    \/ LoopStart \/ SubscribeStatus \/ SetHandler
    \/ (beats < MaxHeartbeats /\ Heartbeat)
    \/ Interrupt \/ LoopStop \/ Disconnect
    \/ HandlerStep(NetThread)
    \/ StatusArrives
    \/ SubConnect(Solo)
    \/ SubOnConnect(Solo)

SpecOneSub == Init /\ [][NextOneSub]_vars

\* the publisher alone: status messages from any client, and its handler
\* invoked concurrently
NextPub ==
    \/ PubMain
    \/ \E h \in Handlers : HandlerStep(h)
    \/ StatusArrives

SpecPub == Init /\ [][NextPub]_vars

\* the publisher alone, over a link on which acknowledgements may be late or
\* missing and publishes may be refused
InitAcks ==
    /\ InitPrograms /\ ParseIdle /\ cfg = DefaultConfig
    /\ JSON_LOG = [s \in Subs |-> NoFile]
    /\ JSON_BAK = [s \in Subs |-> NoFile]
    /\ file0 = NoFile
    /\ bak0 = NoFile
    /\ acks \in {"in_time", "any"}
    /\ ToolsIdle

SpecPubAcks == InitAcks /\ [][NextPub]_vars

\* the publisher as it runs: its main thread and the one network thread of
\* loop_start.  Both threads keep being scheduled; loop_stop's join returns
\* once the network thread is between two messages.
NextPubLive ==
    \/ PubMain
    \/ HandlerStep(NetThread)
    \/ StatusArrives

SpecPubLive ==
    /\ Init /\ [][NextPubLive]_vars
    /\ WF_vars(Heartbeat)
    /\ WF_vars(HandlerStep(NetThread))
    /\ SF_vars(LoopStop)
    /\ WF_vars(Disconnect)

\* the publisher started with any configuration
InitConfig ==
    /\ InitPrograms /\ ParseIdle
    /\ JSON_LOG = [s \in Subs |-> NoFile]
    /\ JSON_BAK = [s \in Subs |-> NoFile]
    /\ file0 = NoFile
    /\ bak0 = NoFile
    /\ cfg \in Configs
    /\ PromptAcks /\ ToolsIdle

SpecConfig == InitConfig /\ [][NextPubLive]_vars

\* one subscriber alone: any message may reach it, its connection may be
\* lost, file operations may fail
NextSub ==
    \/ SubConnect(Solo)
    \/ SubOnConnect(Solo)
    \/ SubLost(Solo)
    \/ SubReconnect(Solo)
    \/ SubOnMessage(Solo, TRUE)
    \/ Deliver(Solo)

SpecSub == Init /\ [][NextSub]_vars

\* the record built from one data message, for any decoded payload
InitParse ==
    /\ InitPrograms
    /\ JSON_LOG = [s \in Subs |-> NoFile]
    /\ JSON_BAK = [s \in Subs |-> NoFile]
    /\ file0 = NoFile
    /\ bak0 = NoFile
    /\ parse_input \in ParseInputs
    /\ parse_output = <<>>
    /\ cfg = DefaultConfig /\ PromptAcks /\ ToolsIdle

NextParse == ParsePayload

\* wait_for_broker started with any TIMEOUT and command line
InitWait ==
    /\ InitPrograms /\ ParseIdle /\ cfg = DefaultConfig /\ PromptAcks
    /\ JSON_LOG = [s \in Subs |-> NoFile]
    /\ JSON_BAK = [s \in Subs |-> NoFile]
    /\ file0 = NoFile
    /\ bak0 = NoFile
    /\ wait_pc = "while"
    /\ now = 0
    /\ deadline \in 0..MaxTimeout
    /\ argv \in WaitCommands
    /\ connects = 0
    /\ CoerceIdle /\ LockIdle

\* auto_convert_record given any row
InitCoerce ==
    /\ InitPrograms /\ ParseIdle /\ cfg = DefaultConfig /\ PromptAcks /\ WaitIdle
    /\ JSON_LOG = [s \in Subs |-> NoFile]
    /\ JSON_BAK = [s \in Subs |-> NoFile]
    /\ file0 = NoFile
    /\ bak0 = NoFile
    /\ coerce_in \in CoerceRecords
    /\ coerce_out = <<>>
    /\ coerce_again = <<>>
    /\ LockIdle

\* the subscriber with on_message called from two threads
InitLock ==
    /\ InitPrograms /\ ParseIdle /\ cfg = DefaultConfig /\ PromptAcks
    /\ WaitIdle /\ CoerceIdle /\ LockIdle
    /\ JSON_LOG = [s \in Subs |-> NoFile]
    /\ JSON_BAK = [s \in Subs |-> NoFile]
    /\ file0 = NoFile
    /\ bak0 = NoFile

NextLock ==
    \E t \in Threads :
       OmEnter(t) \/ OmOpenText(t) \/ OmWriteText(t) \/ OmAcquire(t) \/ OmAppend(t)

SpecLock == InitLock /\ [][NextLock]_vars

NextCoerce == Coerce \/ CoerceAgain

SpecCoerce == InitCoerce /\ [][NextCoerce]_vars

NextWait == WaitTest \/ WaitConnect \/ WaitExec \/ WaitSleep

SpecWait == InitWait /\ [][NextWait]_vars

SpecParse == InitParse /\ [][NextParse]_vars

\* append_json_record alone, from any file an earlier run may have left
NextAppend == AppendCall \/ AppendCut

SpecAppend == InitAppend /\ [][NextAppend]_vars

(* ============================== claims ================================ *)
AllRecords == [k \in 1..NumRecords |-> records[k]]
BatchesOf(id) == {i \in DOMAIN batches : batches[i].id = id}
\* a handler invocation is between the insert of id and the end of its batch
InProgress(id) == \E h \in Handlers : hPc[h] \in {"publish", "grace"} /\ hId[h] = id

\* C1: once the handler is through with an identifier that was new, exactly
\* one redelivery has occurred for it and it published every loaded record
\* once; no records are published for an identifier outside the set or for a
\* status message whose identifier is already in the set.
C1_ExactlyOneFullRedelivery ==
    /\ \A id \in KNOWN_SUBSCRIBERS :
          ~InProgress(id) =>
             /\ Cardinality(BatchesOf(id)) = 1
             /\ \A i \in BatchesOf(id) : batches[i].recs = AllRecords
    /\ \A i \in DOMAIN batches : batches[i].id \in KNOWN_SUBSCRIBERS

\* C2: check and insert are one critical section under SUBSCRIBER_LOCK: no
\* identifier has a redelivery started for it twice, whatever the interleaving
\* of the handler invocations; the set is only mutated by the lock's holder;
\* at most one invocation is inside the with block.
C2_CheckAndInsertAtomic ==
    /\ \A i, j \in DOMAIN started : i # j => started[i] # started[j]
    /\ ~unlockedWrite
    /\ Cardinality({h \in Handlers :
                      hPc[h] \in {"check", "add", "publish", "grace", "release"}}) <= 1
    /\ \A h \in Handlers :
          hPc[h] \in {"check", "add", "publish", "grace", "release"}
             => SUBSCRIBER_LOCK = h

\* two invocations carry the same identifier, not yet in the set: one is
\* inside the with block, the other waits for the lock
C2_Witness ==
    \E h1, h2 \in Handlers :
       /\ h1 # h2
       /\ hPc[h1] = "check" /\ hPc[h2] = "lock"
       /\ hId[h1] = hId[h2]
       /\ hId[h1] \notin KNOWN_SUBSCRIBERS

\* how many times x occurs in the sequence seq
Count(seq, x) == Cardinality({i \in DOMAIN seq : seq[i] = x})

\* how many times record rec was published by the batches 1..i
PublishedUpTo(i, rec) ==
    Cardinality({jm \in (1..i) \X (1..NumRecords) :
                    /\ jm[2] \in DOMAIN batches[jm[1]].recs
                    /\ batches[jm[1]].recs[jm[2]] = rec})

\* C3: once a subscriber's identifier is known and the record set has been
\* sent for it, nothing the publisher does later makes it receive the
\* records again: it never holds more copies of a record than had been
\* published when its own batch ended.
C3_NoDuplicateData ==
    \A s \in Subs : \A i \in BatchesOf(<<CLIENT_ID(s)>>) :
       (~batches[i].raised /\ batches[i].recs = AllRecords) =>
          \A k \in 1..NumRecords :
             Count(received[s], json_dumps(records[k])) <= PublishedUpTo(i, records[k])

\* C4 (its last step, as a property of finite runs): when the publisher has
\* marked a subscriber known and its handler has returned, the full set of
\* records has been published to the data topic for it.
C4_KnownThenAllPublished ==
    \A s \in Subs :
       (<<CLIENT_ID(s)>> \in KNOWN_SUBSCRIBERS /\ hPc[NetThread] = "idle") =>
          \E i \in DOMAIN batches :
             batches[i].id = <<CLIENT_ID(s)>> /\ Len(batches[i].recs) = NumRecords

HandledBy(s) ==
    /\ subPc[s] = "up" /\ subPc'[s] = "up"
    /\ queue[s] # <<>>
    /\ Len(queue'[s]) = Len(queue[s]) - 1

SubscribeOp(t, q) == [op |-> "subscribe", topic |-> t, qos |-> q, payload |-> <<>>]
AnnounceOp(s) ==
    [op |-> "publish", topic |-> STATUS_TOPIC, qos |-> 1, payload |-> <<CLIENT_ID(s)>>]

\* C5: every on_connect with a success code makes exactly these calls, in
\* this order: subscribe(data topic, QoS 1), subscribe(heartbeat topic, QoS 0),
\* publish(status topic, CLIENT_ID, QoS 1), after which the broker holds both
\* subscriptions; an on_connect with another code makes no call and changes
\* nothing at the broker.
C5_ConnectOrder ==
    [][\A s \in Subs :
          (subPc[s] = "connecting" /\ subPc'[s] # "connecting") =>
             IF lastRc'[s] = 0
             THEN /\ lastOps'[s] = <<SubscribeOp(TOPIC, 1),
                                     SubscribeOp(HEARTBEAT_TOPIC, 0), AnnounceOp(s)>>
                  /\ topics'[s] = {[topic |-> TOPIC, qos |-> 1],
                                   [topic |-> HEARTBEAT_TOPIC, qos |-> 0]}
                  /\ subPc'[s] = "up"
             ELSE /\ lastOps'[s] = <<>>
                  /\ topics' = topics /\ queue' = queue
                  /\ subPc'[s] = "down"]_vars

\* the subscriber is connected again after a lost connection, and its
\* on_connect has just made its three calls
C5_Witness ==
    /\ reconnects >= 1
    /\ subPc[Solo] = "up"
    /\ Len(lastOps[Solo]) = 3
    /\ lastOps[Solo][3] = AnnounceOp(Solo)

\* C7: handling a heartbeat-topic message publishes the CLIENT_ID to the
\* status topic exactly when the payload is "ready", and in both cases leaves
\* the text log and the JSON log as they were; handling a message on a topic
\* that is neither the data nor the heartbeat topic makes no call and changes
\* no file.
C7_HeartbeatOnlyAnnounces ==
    [][\A s \in Subs : HandledBy(s) =>
          LET msg == Head(queue[s]) IN
          /\ msg.topic = HEARTBEAT_TOPIC =>
                /\ lastOps'[s] = IF msg.payload = <<"ready">>
                                 THEN <<AnnounceOp(s)>> ELSE <<>>
                /\ UNCHANGED <<TEXT_LOG, JSON_LOG, JSON_BAK, received>>
          /\ msg.topic \notin {TOPIC, HEARTBEAT_TOPIC} =>
                /\ lastOps'[s] = <<>>
                /\ UNCHANGED <<TEXT_LOG, JSON_LOG, JSON_BAK, received, topics>>
                /\ queue' = [queue EXCEPT ![s] = Tail(@)]]_vars

\* a "ready" heartbeat has just been answered, beside a heartbeat-topic
\* message with another payload and a message on another topic
C7_Witness ==
    /\ lastOps[Solo] = <<AnnounceOp(Solo)>>
    /\ subPc[Solo] = "up"
    /\ foreign >= 2

IsArrayFile(f) == f.exists /\ json_load(f.bytes).ok /\ json_load(f.bytes).isList

\* C8: starting from a log file that decodes to an array A, the calls
\* append_json_record(r1), ..., append_json_record(rn) leave the file as A
\* followed by r1..rn and create no backup; starting from no file they leave
\* the array r1..rn.
C8_AppendKeepsArray ==
    /\ IsArrayFile(file0) =>
          /\ JSON_LOG[Solo] = File(json_dump(json_load(file0.bytes).data \o calls))
          /\ JSON_BAK[Solo] = bak0
    /\ (~file0.exists /\ calls # <<>>) =>
          /\ JSON_LOG[Solo] = File(json_dump(calls))
          /\ JSON_BAK[Solo] = bak0

\* C9: the first call append_json_record(r) on a log file that exists and
\* does not decode to an array (a file cut short by an earlier rewrite
\* included) does not raise, leaves the log as the array [r], and leaves in the
\* .bak file the bytes the log had.
C9_CorruptedFileRecovered ==
    (file0.exists /\ ~IsArrayFile(file0) /\ Len(calls) = 1) =>
       /\ ~appendRaised
       /\ JSON_LOG[Solo] = File(json_dump(calls))
       /\ JSON_BAK[Solo] = File(file0.bytes)

\* the lines of a text: one per line break
Lines(text) == Count(text, NEWLINE)

\* C10: after n data messages, no file operation having failed and no log
\* having been moved aside, the text log has n lines and the JSON log is the
\* array of the n records, both in arrival order.
C10_OneLineOneObject ==
    \A s \in Subs :
       (ioFaults = 0 /\ ~JSON_BAK[s].exists) =>
          /\ Lines(TEXT_LOG[s]) = Len(received[s])
          /\ received[s] # <<>> =>
                JSON_LOG[s] = File(json_dump([i \in DOMAIN received[s] |->
                                     final_record(s, TOPIC, received[s][i])]))

MetaKeys == {"_received_at", "_topic", "_client_id"}

\* the parse stage that decides for the text t: 1, 2, 3, or 0 when all fail
StageOf(t) ==
    IF json_loads(t).ok THEN 1
    ELSE IF unicode_escape(t).ok /\ json_loads(unicode_escape(t).text).ok THEN 2
    ELSE IF json_loads(Unquote(t)).ok THEN 3
    ELSE 0

\* the value the deciding stage parsed
StageValue(t) ==
    IF StageOf(t) = 1 THEN json_loads(t)
    ELSE IF StageOf(t) = 2 THEN json_loads(unicode_escape(t).text)
    ELSE json_loads(Unquote(t))

\* C11: for every decoded payload a record is built; the first stage that
\* parses decides the value; an object is the record, another value v gives
\* {"value": v}, no stage parsing gives {"raw": text}; the logged object has
\* the record's keys with the record's values, and the metadata keys the
\* record lacks with the metadata values.
C11_LayeredParse ==
    /\ parse_output = <<>> =>
          MetaKeys \subseteq DOMAIN final_record(Solo, TOPIC, parse_input)
    /\ parse_output # <<>> =>
          LET t == parse_input
              r == parse_output[1]
              record == IF StageOf(t) = 0 THEN Dict1("raw", t)
                        ELSE IF StageValue(t).isDict THEN StageValue(t).value
                        ELSE Dict1("value", StageValue(t).value)
          IN  /\ DOMAIN r = MetaKeys \cup DOMAIN record
              /\ \A k \in DOMAIN record : r[k] = record[k]
              /\ "_received_at" \notin DOMAIN record => r["_received_at"] = <<"ts">>
              /\ "_topic" \notin DOMAIN record => r["_topic"] = <<TOPIC>>
              /\ "_client_id" \notin DOMAIN record => r["_client_id"] = <<CLIENT_ID(Solo)>>

\* the second stage decided, where the third would have parsed another value,
\* and the object's key replaced a metadata key
C11_Witness ==
    /\ parse_output # <<>>
    /\ StageOf(parse_input) = 2
    /\ json_loads(Unquote(parse_input)).ok
    /\ json_loads(Unquote(parse_input)).value # StageValue(parse_input).value
    /\ parse_output[1]["_topic"] = <<MOJIBAKE_EACUTE>>

\* the publisher has touched neither the broker nor its subscriber set
NoNetworkActivity ==
    /\ topics[PUB] = {} /\ queue[PUB] = <<>>
    /\ ~handlerSet /\ beats = 0 /\ lastBeat = <<>>
    /\ started = <<>> /\ batches = <<>>
    /\ \A h \in Handlers : hPc[h] = "idle" /\ infos[h] = <<>>

\* C12: the connect attempts are numbered 1..12; an attempt that succeeds is
\* followed by loop_start and never by another attempt; the retry delay
\* follows only a failed attempt that is not the twelfth and is followed by
\* the next attempt; the twelfth failure ends the process with a nonzero
\* status, nothing having been subscribed or published.
C12_ConnectRetry ==
    /\ [](pubPc \in {"connect", "retry_sleep"} => attempt \in 1..MAX_CONNECT_RETRIES)
    /\ [][(pubPc = "connect" /\ pubPc' # "connect") =>
             /\ pubPc' \in {"loop_start", "retry_sleep", "crashed"}
             /\ pubPc' = "retry_sleep" => attempt < MAX_CONNECT_RETRIES
             /\ pubPc' = "crashed" => attempt = MAX_CONNECT_RETRIES]_vars
    /\ [][(pubPc' = "retry_sleep" /\ pubPc # "retry_sleep") => pubPc = "connect"]_vars
    /\ [][(pubPc = "retry_sleep" /\ pubPc' # "retry_sleep") =>
             pubPc' = "connect" /\ attempt' = attempt + 1]_vars
    /\ [][(pubPc' = "connect" /\ pubPc # "connect") =>
             pubPc \in {"start", "retry_sleep"}]_vars
    /\ [][pubPc = "crashed" => pubPc' = "crashed"]_vars
    /\ [](pubPc = "crashed" =>
             attempt = MAX_CONNECT_RETRIES /\ ExitStatus = 1 /\ NoNetworkActivity)

\* all twelve attempts have failed
C12_Witness == pubPc = "crashed" /\ attempt = MAX_CONNECT_RETRIES

\* C15: with source.path missing, or a source.type that is neither csv nor
\* json, main ends with exit status 1 at its first step, before any connect
\* attempt, subscription or publish; no such configuration gets further.
C15_ConfigErrorsFatal ==
    /\ [][(pubPc = "start" /\ pubPc' # "start" /\ (cfg.path = "" \/ cfg.type = "xml")) =>
             pubPc' = "exit1"]_vars
    /\ [](pubPc \notin {"start", "exit1"} => (cfg.path # "" /\ cfg.type # "xml"))
    /\ [][pubPc = "exit1" => pubPc' = "exit1"]_vars
    /\ [](pubPc = "exit1" => (ExitStatus = 1 /\ attempt = 1 /\ NoNetworkActivity))

\* main has ended on an unsupported source type, the path being given
C15_Witness == pubPc = "exit1" /\ cfg.path # "" /\ cfg.type = "xml"

C14_WaitOutcomes ==
    /\ wait_pc = "replaced" => (connects >= 1 /\ Len(argv) > 0)
    /\ WaitExitStatus = 0 => (connects >= 1 /\ Len(argv) = 0)
    /\ WaitExitStatus = 1 => (connects = 0 /\ now >= deadline)
    /\ connects >= 1 => wait_pc \in {"execvp", "replaced", "exit0"}

\* what C16 says a string field value becomes
AsInteger(s) == s # <<>> /\ Positions(s, {"."}) = {} /\ parse_int(s).ok
AsFloat(s) == s # <<>> /\ parse_float(s).ok
AsJson(s) == (Wrapped(s, "{", "}") \/ Wrapped(s, "[", "]")) /\ json_loads(s).ok
FirstApplicable(s) ==
    CASE AsInteger(s) -> IntV(parse_int(s).value)
      [] ~AsInteger(s) /\ AsFloat(s) -> FloatV(parse_float(s).value)
      [] ~AsInteger(s) /\ ~AsFloat(s) /\ lower(s) \in Truthy -> BoolV(TRUE)
      [] ~AsInteger(s) /\ ~AsFloat(s) /\ lower(s) \in Falsy -> BoolV(FALSE)
      [] ~AsInteger(s) /\ ~AsFloat(s) /\ lower(s) \notin Truthy \cup Falsy /\ AsJson(s) ->
            IF json_loads(s).isDict THEN DictV(json_loads(s).value)
            ELSE ListV(json_loads(s).value)
      [] OTHER -> StrV(s)

ExampleRow == [id |-> StrV(<<"1">>), active |-> StrV(<<"t", "r", "u", "e">>)]

\* C16: in the converted record every field that was a string holds the first
\* applicable of integer, float, boolean of the vocabulary, parsed JSON value
\* and trimmed string; the row id=1, active=true becomes {"id": 1,
\* "active": true}.
C16_CoercionPrecedence ==
    coerce_out # <<>> =>
       /\ \A k \in DOMAIN coerce_in :
             coerce_in[k].type = "str" =>
                coerce_out[1][k] = FirstApplicable(Strip(coerce_in[k].v))
       /\ coerce_in = ExampleRow =>
             coerce_out[1] = [id |-> IntV(1), active |-> BoolV(TRUE)]

\* the example row has been converted: "1", a word of the truthy vocabulary,
\* has become the integer
C16_Witness ==
    /\ coerce_in = ExampleRow
    /\ coerce_out # <<>>
    /\ coerce_out[1].id.type = "int"

PythonTypes == {"str", "int", "float", "bool", "dict", "list", "NoneType"}

\* C17: the conversion of a record gives a record of Python values with the
\* same keys, in which the values that were no strings are unchanged;
\* converting the result again gives the result.
C17_CoercionTotalIdempotent ==
    /\ coerce_out # <<>> =>
          /\ DOMAIN coerce_out[1] = DOMAIN coerce_in
          /\ \A k \in DOMAIN coerce_in :
                /\ coerce_out[1][k].type \in PythonTypes
                /\ coerce_in[k].type # "str" => coerce_out[1][k] = coerce_in[k]
    /\ coerce_again # <<>> => coerce_again[1] = coerce_out[1]

\* a row with a padded number and a missing value has been converted twice
C17_Witness ==
    /\ coerce_in = [id |-> StrV(<<SPACE, "1">>), active |-> NoneV]
    /\ coerce_again # <<>>
    /\ coerce_out[1].id = IntV(1)

\* the network thread takes a status message with a decodable payload from
\* the publisher's queue while the publisher is subscribed to T/status
StatusDispatched ==
    /\ Subscribed(topics, PUB, STATUS_TOPIC)
    /\ queue[PUB] # <<>>
    /\ Head(queue[PUB]).topic = STATUS_TOPIC
    /\ Decodable(Head(queue[PUB]).payload)
    /\ queue'[PUB] = Tail(queue[PUB])
    /\ pubPc' = pubPc

\* C18: every status message that the network thread takes from the queue
\* once the publisher has subscribed enters on_message_handler, which goes on
\* to the lock and the unseen-check.
C18_StatusAlwaysHandled ==
    [][StatusDispatched =>
          \E h \in Handlers : hPc[h] = "idle" /\ hPc'[h] = "lock"]_vars

\* C19: a thread that has the text transcript open, or is inside the
\* read-modify-rewrite of the JSON array file, holds JSON_LOCK; no two
\* threads are writing to a log file at the same time.
C19_BothFilesUnderLock ==
    /\ \A t \in Threads : omPc[t] \in {"write_text", "append"} => JSON_LOCK = t
    /\ \A t, u \in Threads :
          (t # u /\ omPc[t] \in {"write_text", "append"}) =>
             omPc[u] \notin {"write_text", "append"}

\* the handler is between the membership check and the end of the with block
InCriticalSection(h) == hPc[h] \in {"check", "add", "publish", "grace", "release"}

\* SUBSCRIBER_LOCK is held from the check to the end of the grace period, one
\* redelivery at most is in progress, and what it has published so far is the
\* loaded records in load order
RedeliveriesSerialized ==
    /\ \A h \in Handlers : InCriticalSection(h) => SUBSCRIBER_LOCK = h
    /\ \A h, g \in Handlers : (h # g /\ InCriticalSection(h)) => ~InCriticalSection(g)
    /\ \A h \in Handlers :
          hPc[h] \in {"publish", "grace"} =>
             /\ Len(infos[h]) <= NumRecords
             /\ infos[h] = SubSeq(AllRecords, 1, Len(infos[h]))

\* C20: redeliveries are serialized by SUBSCRIBER_LOCK, and every redelivery
\* that has ended published the loaded records in load order, each exactly
\* once.
C20_SerializedRedeliveries ==
    /\ RedeliveriesSerialized
    /\ \A i \in DOMAIN batches : batches[i].recs = AllRecords

\* client c is handed one more message of the data topic by this step
DataPublished(c) ==
    /\ Len(queue'[c]) = Len(queue[c]) + 1
    /\ queue'[c][Len(queue'[c])].topic = TOPIC

\* this step is one round of publish_records inside the with block of handler
\* invocation h, for an identifier of the set: the next record in load order
\* is what every client subscribed to the data topic is handed
BatchPublish(h) ==
    /\ hPc[h] = "publish"
    /\ SUBSCRIBER_LOCK = h
    /\ hId[h] \in KNOWN_SUBSCRIBERS
    /\ hId[h] = started[Len(started)]
    /\ infos'[h] = Append(infos[h], records[Len(infos[h]) + 1])
    /\ queue' = Route(topics, queue, Msg(TOPIC, json_dumps(records[Len(infos[h]) + 1]), QOS))

\* C21: while the publisher runs, no step removes an identifier from the
\* set; the number of redeliveries started is the number of identifiers in
\* the set, one for each; and a step that publishes to the data topic is a
\* round of a redelivery in progress, so nothing is published to the data
\* topic before an identifier is in the set.
C21_SetGrowsBatchPerId ==
    /\ [](/\ Len(started) = Cardinality(KNOWN_SUBSCRIBERS)
          /\ {started[i] : i \in DOMAIN started} = KNOWN_SUBSCRIBERS)
    /\ [][/\ KNOWN_SUBSCRIBERS \subseteq KNOWN_SUBSCRIBERS'
          /\ (\E c \in Clients : DataPublished(c)) =>
                \E h \in Handlers : BatchPublish(h)]_vars

\* both subscribers are in the set, the second redelivery is in progress and
\* has handed its first record to the first subscriber, which is known already
C21_Witness ==
    /\ KNOWN_SUBSCRIBERS = {<<CLIENT_ID(s)>> : s \in Subs}
    /\ Len(started) = 2
    /\ hPc[NetThread] = "publish"
    /\ Len(infos[NetThread]) = 1
    /\ \E s \in Subs :
          /\ <<CLIENT_ID(s)>> # hId[NetThread]
          /\ queue[s] # <<>>
          /\ queue[s][Len(queue[s])] = Msg(TOPIC, json_dumps(records[1]), QOS)

\* this step ends the redelivery of handler invocation h with an exception
\* raised inside publish_records
BatchRaises(h) ==
    /\ hPc[h] \in {"publish", "grace"}
    /\ Len(batches') = Len(batches) + 1
    /\ batches'[Len(batches')].raised

====
